---- MODULE Spec2Model ----
(***************************************************************************)
(* Model of the Chrome credentials worker (src/src/tasks.py): the task     *)
(* `command`, the extractor `_extract_chrome_creds` and `generate_report`. *)
(*                                                                         *)
(* Python values are modelled as follows.                                  *)
(*   str or None   a record [t |-> "text", v |-> s] or [t |-> "null", ..]  *)
(*   dict          a sequence of [k |-> key, v |-> value] records, in      *)
(*                 insertion order (the iteration order of a dict)         *)
(*   list          a sequence                                              *)
(*   exception     a record [cls |-> class name, line |-> raising line]    *)
(***************************************************************************)
EXTENDS Integers, Sequences, FiniteSets, TLC

\* ---------------------------------------------------------------- bounds
MaxFiles == 2
MaxRows == 3
MaxReportSites == 2
MaxReportUsers == 2

\* ------------------------------------------------------- python values
Null == [t |-> "null", v |-> ""]
Text(s) == [t |-> "text", v |-> s]

\* bool(x) of a str or None: None and "" are falsy.
Truthy(val) == val.t = "text" /\ val.v # ""

\* str(x) inside an f-string.
Format(val) == IF val.t = "null" THEN "None" ELSE val.v

\* repr(x) of a str or None, as printed inside a list.
Repr(val) == IF val.t = "null" THEN "None" ELSE "'" \o val.v \o "'"

RECURSIVE ReprItems(_)
ReprItems(l) ==
  IF l = <<>> THEN ""
  ELSE IF Len(l) = 1 THEN Repr(l[1])
  ELSE Repr(l[1]) \o ", " \o ReprItems(Tail(l))

\* str(list).
ListRepr(l) == "[" \o ReprItems(l) \o "]"

Digits == <<"0", "1", "2", "3", "4", "5", "6", "7", "8", "9">>

RECURSIVE IntStr(_)
\* str(n) of a non-negative int.
IntStr(n) == IF n < 10 THEN Digits[n + 1] ELSE IntStr(n \div 10) \o Digits[(n % 10) + 1]

\* ----------------------------------------------------------------- dict
HasKey(d, key) == \E j \in 1..Len(d) : d[j].k = key

DictGet(d, key) == d[CHOOSE j \in 1..Len(d) : d[j].k = key].v

KeySet(d) == {d[j].k : j \in 1..Len(d)}

\* d[key] = val: an existing key keeps its position, a new key goes last.
DictSet(d, key, val) ==
  IF HasKey(d, key)
  THEN [j \in 1..Len(d) |-> IF d[j].k = key THEN [k |-> key, v |-> val] ELSE d[j]]
  ELSE Append(d, [k |-> key, v |-> val])

RECURSIVE DictUpdate(_, _)
\* d.update(e): every item of e is assigned into d, replacing the old value.
DictUpdate(d, e) ==
  IF e = <<>> THEN d ELSE DictUpdate(DictSet(d, e[1].k, e[1].v), Tail(e))

\* input_file.get(key): None when the key is absent.
DescGet(desc, key) == IF key \in DOMAIN desc THEN Text(desc[key]) ELSE Null

ToSet(l) == {l[j] : j \in 1..Len(l)}

\* The lists holding each element of S once.
Orderings(S) ==
  {l \in [1..Cardinality(S) -> S] : \A a, b \in 1..Cardinality(S) : l[a] = l[b] => a = b}

ListOfSetKeepsAll(l) == {l}

\* list(set(l)): each element once, in an order that is not fixed.
ListOfSet(l) == Orderings(ToSet(l))

RECURSIVE ItemsRepr(_)
ItemsRepr(d) ==
  IF d = <<>> THEN ""
  ELSE IF Len(d) = 1 THEN "'" \o d[1].k \o "': " \o ListRepr(d[1].v)
  ELSE "'" \o d[1].k \o "': " \o ListRepr(d[1].v) \o ", " \o ItemsRepr(Tail(d))

\* str(dict) of a dict of lists.
DictRepr(d) == "{" \o ItemsRepr(d) \o "}"

\* ------------------------------------------------------------ exceptions
\* sqlite3.OperationalError derives from sqlite3.DatabaseError.
IsSubclass(cls, base) ==
  \/ cls = base
  \/ cls = "OperationalError" /\ base = "DatabaseError"

HandlersOnlyOperational == <<"OperationalError">>

HandlersCatchAll == <<"OperationalError", "DatabaseError", "MemoryError">>

\* The except clauses of _extract_chrome_creds, in order.
Handlers == <<"OperationalError", "DatabaseError">>

Caught(cls) == \E h \in 1..Len(Handlers) : IsSubclass(cls, Handlers[h])

\* Failures a read of the logins table can end with.
ReadErrors == {"OperationalError", "DatabaseError", "MemoryError"}

\* ------------------------------------------------------------ the inputs
\* Display name of the j-th input file of a job.
DisplayNames == <<"Login Data", "History", "Web Data", "Cookies">>

\* Paths an input descriptor can carry; what is at each path decides how
\* sqlite3.connect and the query behave.
Paths == {"/evidence/Login Data", "/evidence/absent", "/gone/Login Data"}

FileExists(p) == p = "/evidence/Login Data"

ParentExists(p) == p \in {"/evidence/Login Data", "/evidence/absent"}

\* The descriptors the j-th input file can be: with a path or without one.
Descriptors(j) ==
  {[display_name |-> DisplayNames[j], path |-> p] : p \in Paths}
    \cup {[display_name |-> DisplayNames[j]]}

\* The input lists of a job.
InputLists ==
  UNION {{f \in [1..n -> UNION {Descriptors(j) : j \in 1..n}] :
            \A j \in 1..n : f[j] \in Descriptors(j)} : n \in 0..MaxFiles}

Sites == {"http://x.com", "http://y.com"}

\* Rows of SELECT origin_url, username_value FROM logins: two usernames and
\* a NULL for one site, one username and an empty string for the other.
Rows ==
  {<<"http://x.com", Null>>, <<"http://x.com", Text("a")>>,
   <<"http://x.com", Text("b")>>, <<"http://y.com", Text("")>>,
   <<"http://y.com", Text("a")>>}

SeqsUpTo(S, n) == UNION {[1..m -> S] : m \in 0..n}

\* ------------------------------------------------- _extract_chrome_creds
ProcessRowNoSkip(r, row) ==
  LET r1 == IF ~HasKey(r, row[1]) THEN DictSet(r, row[1], <<>>) ELSE r
  IN  DictSet(r1, row[1], Append(DictGet(r1, row[1]), row[2]))

\* The body of the row loop: a row with a falsy username is skipped, the
\* first row of a site creates its list, the username is appended.
ProcessRow(r, row) ==
  IF ~Truthy(row[2]) THEN r
  ELSE LET r1 == IF ~HasKey(r, row[1]) THEN DictSet(r, row[1], <<>>) ELSE r
       IN  DictSet(r1, row[1], Append(DictGet(r1, row[1]), row[2]))

\* ---------------------------------------------------------- the report
Bullet(text, level) == [kind |-> "bullet", text |-> text, level |-> level]

Paragraph(text) == [kind |-> "paragraph", text |-> text]

SiteLine(item) == "Site '" \o item.k \o "' with users '" \o ListRepr(item.v) \o "'"

\* bool(d) of a dict: it has at least one key.
NonEmpty(c) == Len(c) > 0

ReportPriorityByUsernames(c) ==
  IF \E j \in 1..Len(c) : c[j].v # <<>> THEN "MEDIUM" ELSE "LOW"

\* report.priority: LOW, raised to MEDIUM under `if creds`.
ReportPriority(c) == IF NonEmpty(c) THEN "MEDIUM" ELSE "LOW"

\* report.summary
ReportSummary(c) == IntStr(Len(c)) \o " saved credentials found in Chrome Login Data"

ReportDetailsReversed(c) ==
  IF NonEmpty(c)
  THEN <<Bullet("Credentials:", 1)>>
         \o [j \in 1..Len(c) |-> Bullet(SiteLine(c[Len(c) + 1 - j]), 2)]
  ELSE <<Bullet("No saved credentials found", 1)>>

\* The bullets added to details_section.
ReportDetails(c) ==
  IF NonEmpty(c)
  THEN <<Bullet("Credentials:", 1)>>
         \o [j \in 1..Len(c) |-> Bullet(SiteLine(c[j]), 2)]
  ELSE <<Bullet("No saved credentials found", 1)>>

generate_report(c) ==
  [title |-> "Chrome Config Analyzer",
   summary |-> ReportSummary(c),
   priority |-> ReportPriority(c),
   summary_section |-> <<Paragraph(ReportSummary(c))>>,
   details_section |-> ReportDetails(c)]

CloseLastLeavesOpen(cs) == cs

\* con.close() on the connection of the current call.
CloseLast(cs) == [cs EXCEPT ![Len(cs)] = "closed"]

WritesArtifactAlways(c) == TRUE

\* `if creds:` in the input loop of command.
WritesArtifact(c) == NonEmpty(c)

\* display_name of the output file created for an input file.
OutputName(desc) == Format(DescGet(desc, "display_name")) \o "-chromecreds.dict"

\* ------------------------------------------------------------- the state
VARIABLES
  input_files,      \* the resolved input descriptors of the job
  pc,               \* position of the job in command / _extract_chrome_creds
  i,                \* number of input files the loop has finished
  report_file,      \* display name of the output file created for this file
  ret,              \* the mapping _extract_chrome_creds is building
  rows,             \* rows the cursor has yielded in the current call
  nrows,            \* rows the job has read so far, over all its files
  creds,            \* what the last call of _extract_chrome_creds returned
  caught,           \* class of the failure that call absorbed, "" if none
  extracted_creds,  \* the aggregated mapping
  output_files,     \* the job's output-file list
  disk,             \* artifacts written: name and body
  conns,            \* one entry per connection opened: "open" or "closed"
  returned,         \* per finished call: the mapping returned, the class caught
  dk,               \* position of the deduplication loop
  nreports,         \* number of calls of generate_report made by the job
  task_report,      \* <<>> (None) or the one-element report list
  result,           \* <<>> or the one task result returned
  raised,           \* <<>> or the failure that left command
  rarg,             \* argument of a direct call of generate_report
  rret              \* <<>> or the report that call returned

vars == <<input_files, pc, i, report_file, ret, rows, nrows, creds, caught,
          extracted_creds, output_files, disk, conns, returned, dk,
          nreports, task_report, result, raised, rarg, rret>>

JobStart ==
  /\ pc = "loop"
  /\ i = 0
  /\ report_file = ""
  /\ ret = <<>>
  /\ rows = <<>>
  /\ nrows = 0
  /\ creds = <<>>
  /\ caught = ""
  /\ extracted_creds = <<>>
  /\ output_files = <<>>
  /\ disk = <<>>
  /\ conns = <<>>
  /\ returned = <<>>
  /\ dk = 0
  /\ nreports = 0
  /\ task_report = <<>>
  /\ result = <<>>
  /\ raised = <<>>

Init ==
  /\ input_files \in InputLists
  /\ JobStart
  /\ rarg = <<>>
  /\ rret = <<>>

\* The path handed to _extract_chrome_creds for the current file.
filepath == DescGet(input_files[i + 1], "path")

\* for input_file in input_files: create the output file and call the
\* extractor, whose first statement is ret = {}.
NextFile ==
  /\ pc = "loop"
  /\ i < Len(input_files)
  /\ report_file' = OutputName(input_files[i + 1])
  /\ ret' = <<>>
  /\ rows' = <<>>
  /\ pc' = "connect"
  /\ UNCHANGED <<input_files, i, nrows, creds, caught, extracted_creds, output_files,
                 disk, conns, returned, dk, nreports, task_report, result,
                 raised, rarg, rret>>

\* con = sqlite3.connect(filepath); cur = con.cursor().  Outside the try:
\* None is a TypeError, a path whose directory is missing cannot be opened,
\* any other path is opened (and created when absent).
Connect ==
  /\ pc = "connect"
  /\ IF filepath.t = "null"
     THEN /\ raised' = <<[cls |-> "TypeError", line |-> 115]>>
          /\ pc' = "failed"
          /\ UNCHANGED conns
     ELSE IF ~ParentExists(filepath.v)
     THEN /\ raised' = <<[cls |-> "OperationalError", line |-> 115]>>
          /\ pc' = "failed"
          /\ UNCHANGED conns
     ELSE /\ conns' = Append(conns, "open")
          /\ pc' = "read"
          /\ UNCHANGED raised
  /\ UNCHANGED <<input_files, i, report_file, ret, rows, nrows, creds, caught,
                 extracted_creds, output_files, disk, returned, dk, nreports,
                 task_report, result, rarg, rret>>

\* The cursor yields one more row and the loop body processes it.
ReadRow ==
  /\ pc = "read"
  /\ FileExists(filepath.v)
  /\ nrows < MaxRows
  /\ \E row \in Rows :
       /\ rows' = Append(rows, row)
       /\ nrows' = nrows + 1
       /\ ret' = ProcessRow(ret, row)
  /\ UNCHANGED <<input_files, pc, i, report_file, creds, caught,
                 extracted_creds, output_files, disk, conns, returned, dk,
                 nreports, task_report, result, raised, rarg, rret>>

\* The cursor is exhausted: con.close(); return ret.
ReadDone ==
  /\ pc = "read"
  /\ FileExists(filepath.v)
  /\ conns' = CloseLast(conns)
  /\ creds' = ret
  /\ caught' = ""
  /\ returned' = Append(returned, [creds |-> ret, caught |-> ""])
  /\ pc' = "merge"
  /\ UNCHANGED <<input_files, i, report_file, ret, rows, nrows, extracted_creds,
                 output_files, disk, dk, nreports, task_report, result, raised,
                 rarg, rret>>

\* execute or the fetch of the next row raises.  A file that connect has
\* just created has no logins table: execute raises OperationalError.  A
\* failure an except clause matches returns ret, any other leaves command.
ReadFail ==
  /\ pc = "read"
  /\ \E cls \in ReadErrors :
       /\ FileExists(filepath.v) \/ (cls = "OperationalError" /\ rows = <<>>)
       /\ IF Caught(cls)
          THEN /\ creds' = ret
               /\ caught' = cls
               /\ returned' = Append(returned, [creds |-> ret, caught |-> cls])
               /\ pc' = "merge"
               /\ UNCHANGED raised
          ELSE /\ raised' = <<[cls |-> cls, line |-> 118]>>
               /\ pc' = "failed"
               /\ UNCHANGED <<creds, caught, returned>>
  /\ UNCHANGED <<input_files, i, report_file, ret, rows, nrows, extracted_creds,
                 output_files, disk, conns, dk, nreports, task_report, result,
                 rarg, rret>>

\* extracted_creds.update(creds); if creds: write the artifact and append
\* it to output_files.  The write can fail, and nothing catches that.
Merge ==
  /\ pc = "merge"
  /\ extracted_creds' = DictUpdate(extracted_creds, creds)
  /\ IF WritesArtifact(creds)
     THEN \E ok \in BOOLEAN :
            IF ok
            THEN /\ disk' = Append(disk, [name |-> report_file, body |-> DictRepr(creds)])
                 /\ output_files' = Append(output_files,
                      [display_name |-> report_file,
                       data_type |-> "worker:openrelik:chromecreds:report"])
                 /\ i' = i + 1
                 /\ pc' = "loop"
                 /\ UNCHANGED raised
            ELSE /\ raised' = <<[cls |-> "OSError", line |-> 69]>>
                 /\ pc' = "failed"
                 /\ UNCHANGED <<disk, output_files, i>>
     ELSE /\ i' = i + 1
          /\ pc' = "loop"
          /\ UNCHANGED <<disk, output_files, raised>>
  /\ UNCHANGED <<input_files, report_file, ret, rows, nrows, creds, caught, conns,
                 returned, dk, nreports, task_report, result, rarg, rret>>

\* The input loop ends; the deduplication loop starts.
LoopEnd ==
  /\ pc = "loop"
  /\ i = Len(input_files)
  /\ dk' = 1
  /\ pc' = "dedup"
  /\ UNCHANGED <<input_files, i, report_file, ret, rows, nrows, creds, caught,
                 extracted_creds, output_files, disk, conns, returned,
                 nreports, task_report, result, raised, rarg, rret>>

\* extracted_creds[key] = list(set(extracted_creds[key])) for the next key;
\* the order a set is listed in is not fixed.
DedupKey ==
  /\ pc = "dedup"
  /\ dk <= Len(extracted_creds)
  /\ \E l \in ListOfSet(extracted_creds[dk].v) :
       extracted_creds' = DictSet(extracted_creds, extracted_creds[dk].k, l)
  /\ dk' = dk + 1
  /\ UNCHANGED <<input_files, pc, i, report_file, ret, rows, nrows, creds, caught,
                 output_files, disk, conns, returned, nreports, task_report,
                 result, raised, rarg, rret>>

\* task_report = [generate_report(extracted_creds).to_dict()]
MakeReport ==
  /\ pc = "dedup"
  /\ dk > Len(extracted_creds)
  /\ task_report' = <<generate_report(extracted_creds)>>
  /\ nreports' = nreports + 1
  /\ pc' = "return"
  /\ UNCHANGED <<input_files, i, report_file, ret, rows, nrows, creds, caught,
                 extracted_creds, output_files, disk, conns, returned, dk,
                 result, raised, rarg, rret>>

\* return create_task_result(output_files, workflow_id, task_report)
Return ==
  /\ pc = "return"
  /\ result' = <<[output_files |-> output_files, task_report |-> task_report]>>
  /\ pc' = "done"
  /\ UNCHANGED <<input_files, i, report_file, ret, rows, nrows, creds, caught,
                 extracted_creds, output_files, disk, conns, returned, dk,
                 nreports, task_report, raised, rarg, rret>>

Next ==
  \/ NextFile
  \/ Connect
  \/ ReadRow
  \/ ReadDone
  \/ ReadFail
  \/ Merge
  \/ LoopEnd
  \/ DedupKey
  \/ MakeReport
  \/ Return

Spec == Init /\ [][Next]_vars

\* ------------------------------------- generate_report called on its own
ReportSites == {"http://test.com", "http://example.com", "http://x.com"}

ReportUsers == {Text("testuser"), Text("exampleuser"), Text("admin")}

\* Username lists of up to MaxReportUsers distinct usernames.
ReportLists ==
  {l \in SeqsUpTo(ReportUsers, MaxReportUsers) :
     \A a, b \in 1..Len(l) : l[a] = l[b] => a = b}

\* The mappings generate_report is called with: up to m sites,
\* each with one of these lists (possibly the empty one).
ReportArgs(m) ==
  UNION {{[j \in 1..n |-> [k |-> ks[j], v |-> ls[j]]] :
            ks \in {q \in [1..n -> ReportSites] : \A a, b \in 1..n : q[a] = q[b] => a = b},
            ls \in [1..n -> ReportLists]} :
         n \in 0..m}

InitReport ==
  /\ input_files = <<>>
  /\ JobStart
  /\ rarg \in ReportArgs(MaxReportSites)
  /\ rret = <<>>

CallGenerateReport ==
  /\ rret = <<>>
  /\ rret' = <<generate_report(rarg)>>
  /\ UNCHANGED <<input_files, pc, i, report_file, ret, rows, nrows, creds,
                 caught, extracted_creds, output_files, disk, conns, returned,
                 dk, nreports, task_report, result, raised, rarg>>

NextReport == CallGenerateReport

SpecReport == InitReport /\ [][NextReport]_vars

\* ------------------------------------------------ vocabulary of the claims
Tolerated == {"OperationalError", "DatabaseError"}

\* The usernames a mapping holds for a site, as a set.
UsersOf(d, s) == IF HasKey(d, s) THEN ToSet(DictGet(d, s)) ELSE {}

NoDuplicates(l) == \A a, b \in 1..Len(l) : l[a] = l[b] => a = b

\* The non-empty usernames of the rows of site s, in row order.
RECURSIVE UsernamesInRowOrder(_, _)
UsernamesInRowOrder(rs, s) ==
  IF rs = <<>> THEN <<>>
  ELSE IF rs[1][1] = s /\ rs[1][2] \notin {Null, Text("")}
       THEN <<rs[1][2]>> \o UsernamesInRowOrder(Tail(rs), s)
       ELSE UsernamesInRowOrder(Tail(rs), s)

\* The sites of the rows that carry a username, in first-seen order.
RECURSIVE SitesFirstSeen(_, _)
SitesFirstSeen(rs, seen) ==
  IF rs = <<>> THEN <<>>
  ELSE IF rs[1][2] \notin {Null, Text("")} /\ rs[1][1] \notin seen
       THEN <<rs[1][1]>> \o SitesFirstSeen(Tail(rs), seen \cup {rs[1][1]})
       ELSE SitesFirstSeen(Tail(rs), seen)

\* The mapping a sequence of rows stands for.
MappingOfRows(rs) ==
  [j \in 1..Len(SitesFirstSeen(rs, {})) |->
     [k |-> SitesFirstSeen(rs, {})[j],
      v |-> UsernamesInRowOrder(rs, SitesFirstSeen(rs, {})[j])]]

\* Number of calls of _extract_chrome_creds the job has begun.
Calls == IF pc \in {"connect", "read", "merge", "failed"} THEN i + 1 ELSE i

\* Indices of the finished calls whose read ended in an absorbed failure.
AbsorbedCalls == {j \in 1..Len(returned) : returned[j].caught # ""}

OpenConns == {j \in 1..Len(conns) : conns[j] = "open"}

\* Every site key has a non-empty list, and no username is empty or absent.
NoEmptyEntries(d) ==
  \A j \in 1..Len(d) :
    /\ d[j].v # <<>>
    /\ \A u \in 1..Len(d[j].v) : d[j].v[u] \notin {Null, Text("")}

\* The input file a call was made for has no usable database path.
Unopenable(desc) == "path" \notin DOMAIN desc \/ ~FileExists(desc["path"])

RECURSIVE ExpectedArtifacts(_)
\* Output names of the first n input files whose extraction was non-empty.
ExpectedArtifacts(n) ==
  IF n = 0 THEN <<>>
  ELSE IF returned[n].creds # <<>>
       THEN Append(ExpectedArtifacts(n - 1),
                   input_files[n]["display_name"] \o "-chromecreds.dict")
       ELSE ExpectedArtifacts(n - 1)

\* ------------------------------------------------------------ the claims

\* C1: when the job has processed all input files, every site's final
\* usernames are the union of the usernames every file's extraction returned
\* for that site.  (Stated as the claim has it; the per-file merge is
\* dict.update, which replaces a site's list.)
C1_FinalIsUnionOfAllFiles ==
  pc \in {"return", "done"} =>
    \A s \in Sites :
      UsersOf(extracted_creds, s)
        = UNION {UsersOf(returned[j].creds, s) : j \in 1..Len(returned)}

\* State part of C2: a read that fails with OperationalError or DatabaseError, before or
\* after some rows, raises nothing out of the extractor, returns exactly the
\* mapping of the rows read before the failure, reads no further row, and
\* the job goes on: a job that finishes has extracted every input file.
C2_State ==
  /\ raised # <<>> /\ raised[1].line = 118 => raised[1].cls \notin Tolerated
  /\ pc = "merge" /\ caught \in Tolerated =>
       /\ creds = MappingOfRows(rows)
       /\ Len(returned) = i + 1
       /\ returned[i + 1].creds = creds
       /\ raised = <<>>
  /\ pc \in {"return", "done"} => Len(returned) = Len(input_files)

C2_Step ==
  pc = "merge" /\ caught \in Tolerated =>
    /\ rows' = rows
    /\ nrows' = nrows
    /\ pc' \in {"merge", "loop"} \/ (pc' = "failed" /\ raised'[1].line = 69)

\* C2: a tolerated read failure returns the mapping built so far (C2_State)
\* and is followed by no further read of that file (C2_Step).
C2_ToleratedReadFailure == []C2_State /\ [][C2_Step]_vars

C2_Witness ==
  /\ pc = "done"
  /\ Len(returned) = 2
  /\ returned[1].caught = "DatabaseError"
  /\ returned[1].creds # <<>>
  /\ returned[2].caught = ""

\* C3: a call for a nonexistent path, or for a descriptor without a path,
\* returns {} and raises nothing.  (Stated as the claim has it.)
C3_UnopenableReturnsEmpty ==
  \A j \in 1..Len(input_files) :
    Unopenable(input_files[j]) =>
      /\ j <= Len(returned) => returned[j].creds = <<>>
      /\ ~(pc = "failed" /\ i + 1 = j /\ raised[1].line \in {115, 118})

\* C4: when command returns, the output-file list holds exactly one artifact
\* per input file whose extraction was non-empty, in input order, named
\* '<display_name>-chromecreds.dict', and none for an empty extraction.
C4_ArtifactsOfNonEmptyFiles ==
  pc = "done" =>
    /\ Len(returned) = Len(input_files)
    /\ [j \in 1..Len(result[1].output_files) |-> result[1].output_files[j].display_name]
         = ExpectedArtifacts(Len(input_files))
    /\ Len(result[1].output_files)
         = Cardinality({j \in 1..Len(returned) : Len(returned[j].creds) >= 1})

C4_Witness ==
  /\ pc = "done"
  /\ Len(input_files) = 2
  /\ returned[1].creds = <<>>
  /\ returned[2].creds # <<>>
  /\ Len(result[1].output_files) = 1
  /\ result[1].output_files[1].display_name = "History-chromecreds.dict"

\* C5: a failure outside the two tolerated classes is never absorbed; it
\* leaves command.  A job either returns one result covering all its input
\* files, or fails as a whole with no report and no artifact list returned.
C5_AllOrNothing ==
  /\ \A j \in 1..Len(returned) : returned[j].caught \in Tolerated \cup {""}
  /\ raised # <<>> => pc = "failed" /\ result = <<>> /\ task_report = <<>>
  /\ pc = "failed" => raised # <<>>
  /\ result # <<>> =>
       /\ raised = <<>>
       /\ Len(returned) = Len(input_files)
       /\ Len(result[1].task_report) = 1

C5_Witness ==
  /\ pc = "failed"
  /\ raised = <<[cls |-> "MemoryError", line |-> 118]>>
  /\ i = 1
  /\ output_files # <<>>
  /\ rows # <<>>
  /\ result = <<>>

\* C6: the summary of generate_report(creds) is 'N saved credentials found
\* in Chrome Login Data' with N the number of site keys, and the priority
\* is MEDIUM exactly when creds has a site key, LOW otherwise, never HIGH.
C6_SummaryAndPriority ==
  rret # <<>> =>
    /\ rret[1].summary
         = IntStr(Cardinality(KeySet(rarg))) \o " saved credentials found in Chrome Login Data"
    /\ rret[1].priority = "MEDIUM" <=> KeySet(rarg) # {}
    /\ rret[1].priority = "LOW" <=> KeySet(rarg) = {}
    /\ rret[1].priority # "HIGH"

\* A site key with an empty list still counts, and two usernames of one
\* site count once.
C6_Witness ==
  /\ rret # <<>>
  /\ Len(rarg) = 2
  /\ rarg[1].v = <<>>
  /\ Len(rarg[2].v) = 2
  /\ rret[1].summary = "2 saved credentials found in Chrome Login Data"
  /\ rret[1].priority = "MEDIUM"

\* C7: the details section is 'Credentials:' followed by one level-2 bullet
\* per site key, "Site '<site>' with users '<list>'", in the order of
\* creds, and nothing else; for an empty creds it is the single bullet
\* 'No saved credentials found'.  The level-2 bullets number the N of the
\* summary.
C7_Details ==
  rret # <<>> =>
    LET d == rret[1].details_section
        level2 == {j \in 1..Len(d) : d[j].level = 2}
    IN  /\ \A j \in 1..Len(d) : d[j].kind = "bullet"
        /\ rret[1].summary
             = IntStr(Cardinality(level2)) \o " saved credentials found in Chrome Login Data"
        /\ IF rarg = <<>>
           THEN d = <<[kind |-> "bullet", text |-> "No saved credentials found", level |-> 1]>>
           ELSE /\ Len(d) = Len(rarg) + 1
                /\ d[1] = [kind |-> "bullet", text |-> "Credentials:", level |-> 1]
                /\ \A j \in 1..Len(rarg) :
                     /\ d[j + 1].level = 2
                     /\ d[j + 1].text
                          = "Site '" \o rarg[j].k \o "' with users '"
                              \o ListRepr(rarg[j].v) \o "'"

\* The report of the repository's test, TWO_CREDENTIALS.
C7_Witness ==
  /\ rret # <<>>
  /\ rarg = <<[k |-> "http://test.com", v |-> <<Text("testuser")>>],
              [k |-> "http://example.com", v |-> <<Text("exampleuser"), Text("admin")>>]>>
  /\ rret[1].details_section[2].text = "Site 'http://test.com' with users '['testuser']'"
  /\ rret[1].details_section[3].text
       = "Site 'http://example.com' with users '['exampleuser', 'admin']'"

\* C8: every mapping the extractor builds or returns, and the aggregated
\* mapping at every step, gives every site key a non-empty list without
\* empty or absent usernames; a site whose rows all lack a username is no
\* key; within one file a site's usernames are in row order.
C8_NoEmptyUsernames ==
  /\ NoEmptyEntries(ret)
  /\ NoEmptyEntries(creds)
  /\ NoEmptyEntries(extracted_creds)
  /\ \A j \in 1..Len(returned) : NoEmptyEntries(returned[j].creds)
  /\ \A s \in Sites :
       IF UsernamesInRowOrder(rows, s) = <<>>
       THEN ~HasKey(ret, s)
       ELSE HasKey(ret, s) /\ DictGet(ret, s) = UsernamesInRowOrder(rows, s)
  /\ pc = "merge" => creds = ret

C8_Witness ==
  /\ pc = "merge"
  /\ rows = <<<<"http://y.com", Text("")>>, <<"http://x.com", Text("b")>>,
              <<"http://x.com", Null>>>>
  /\ creds = <<[k |-> "http://x.com", v |-> <<Text("b")>>]>>

\* State part of C9: a job that returns has called generate_report exactly once, after
\* every input file was extracted and merged and the deduplication ran: the
\* mapping reported on has no username twice in a list and its site keys
\* are the union of the site keys of all extractions.
C9_State ==
  /\ nreports <= 1
  /\ pc \notin {"return", "done"} => nreports = 0 /\ task_report = <<>>
  /\ pc \in {"return", "done"} =>
       /\ nreports = 1
       /\ Len(returned) = Len(input_files)
       /\ i = Len(input_files)
       /\ dk = Len(extracted_creds) + 1
       /\ \A j \in 1..Len(extracted_creds) : NoDuplicates(extracted_creds[j].v)
       /\ KeySet(extracted_creds)
            = UNION {KeySet(returned[j].creds) : j \in 1..Len(returned)}
       /\ Len(task_report) = 1
       /\ Len(task_report[1].details_section)
            = IF extracted_creds = <<>> THEN 1 ELSE Len(extracted_creds) + 1

C9_Step == nreports' # nreports => UNCHANGED extracted_creds /\ pc' = "return"

\* C9: generate_report is called once, after the merge of every file and the
\* deduplication (C9_State), and the call leaves the mapping as it is (C9_Step).
C9_ReportOnceAfterDedup == []C9_State /\ [][C9_Step]_vars

C9_Witness ==
  /\ pc = "done"
  /\ Len(returned) = 2
  /\ returned[1].creds = <<[k |-> "http://x.com", v |-> <<Text("a"), Text("a")>>]>>
  /\ returned[2].creds = <<[k |-> "http://y.com", v |-> <<Text("a")>>]>>
  /\ Len(extracted_creds) = 2
  /\ extracted_creds[1].v = <<Text("a")>>

\* C10 as stated: every call opens exactly one connection, closed iff the
\* query ran to completion, so that after a job the connections left open
\* number the input files whose read failed with a tolerated failure.
C10_OneConnectionPerCall ==
  /\ pc # "connect" => Len(conns) = Calls
  /\ \A j \in 1..Len(returned) :
       conns[j] = IF returned[j].caught = "" THEN "closed" ELSE "open"
  /\ pc \in {"done", "failed"} => Cardinality(OpenConns) = Cardinality(AbsorbedCalls)

\* C10 amended: a call opens one connection when sqlite3.connect succeeds
\* and none when connect raises; the connection is closed iff the query ran
\* to completion.  After a job that returns, the connections left open
\* number the files whose read failed with a tolerated failure; after a job
\* that fails there is one more iff the failure was raised by the read.
C10_ConnectionsAmended ==
  /\ pc # "connect" =>
       Len(conns) = IF raised # <<>> /\ raised[1].line = 115 THEN Calls - 1 ELSE Calls
  /\ \A j \in 1..Len(returned) :
       conns[j] = IF returned[j].caught = "" THEN "closed" ELSE "open"
  /\ pc = "done" => Cardinality(OpenConns) = Cardinality(AbsorbedCalls)
  /\ pc = "failed" =>
       Cardinality(OpenConns)
         = Cardinality(AbsorbedCalls) + IF raised[1].line = 118 THEN 1 ELSE 0

C10_Witness ==
  /\ pc = "done"
  /\ Len(returned) = 2
  /\ returned[1].caught = "OperationalError"
  /\ returned[2].caught = ""
  /\ conns = <<"open", "closed">>

====
